---- MODULE Spec2Model ----
(***************************************************************************)
(* The state-veiling and exchange protocol of the OAuth broker:            *)
(* commonController.Authenticate / Callback and StateStorage.              *)
(*                                                                         *)
(* Every HTTP request is handled by one action. The only state shared by   *)
(* requests is the session store, which Authenticate touches once (Put in  *)
(* VeilRealState) and Callback once (GetString in UnveilState), so one     *)
(* action per handler is a linearisation of the concurrent handlers.       *)
(* The variables request, response and effects describe the request that   *)
(* the last step handled: what came in, what was answered, and which calls *)
(* to the collaborators (cluster API, provider, token storage, audit log,  *)
(* StateStorage) the handler made, in order. The history variable gated    *)
(* remembers, for the session, which targets passed the access review of   *)
(* an Authenticate that then veiled their state, and under which value; it *)
(* is kept by SpecGated only and stays empty under Spec.                   *)
(***************************************************************************)
EXTENDS Integers, Sequences, FiniteSets, TLC

VARIABLES sessionStore, request, response, effects, gated

vars == <<sessionStore, request, response, effects, gated>>

----------------------------------------------------------------------------
(* Bounds of the model *)

\* the length of a veiled state: randStringBytes(32) in the source
VeilLen == 1

----------------------------------------------------------------------------
(* Strings and errors *)

\* the alphabet of veiled states ("abcdefghijklmnopqrstuvwxyz1234567890")
letterBytes == "ab"

NoError == "nil"
noStateError == "request has no state parameter"
randomStringGenerationError == "not able to generate new random string"
noActiveSessionError == "no active oauth session found"

oauthFinishAuthenticated == "oauthFinishAuthenticated"
oauthFinishK8sAuthRequired == "oauthFinishK8sAuthRequired"
oauthFinishError == "oauthFinishError"

StatusOK == 200
StatusFound == 302
StatusBadRequest == 400
StatusUnauthorized == 401
StatusInternalServerError == 500

BaseUrl == "https://spi.example/"

\* strings.TrimSuffix
TrimSuffix(s, suffix) ==
    IF Len(s) >= Len(suffix) /\ SubSeq(s, Len(s) - Len(suffix) + 1, Len(s)) = suffix
    THEN SubSeq(s, 1, Len(s) - Len(suffix))
    ELSE s

----------------------------------------------------------------------------
(* The anonymous OAuth state and its codec (oauthstate, an external        *)
(* package: it encodes a state as a signed string and fails closed on any  *)
(* string that is not such an encoding).                                   *)

AnonymousStates ==
    { [TokenName |-> "tok1", TokenNamespace |-> "ns1",
       ServiceProviderType |-> "GitHub", Scopes |-> <<"repo">>],
      [TokenName |-> "tok2", TokenNamespace |-> "ns2",
       ServiceProviderType |-> "GitHub", Scopes |-> <<"repo">>] }

Encode(st) == "jwt." \o st.TokenNamespace \o "." \o st.TokenName

\* codec.ParseAnonymous / codec.ParseInto
ParseAnonymous(stateString) ==
    IF \E st \in AnonymousStates : Encode(st) = stateString
    THEN [ok |-> TRUE, state |-> CHOOSE st \in AnonymousStates : Encode(st) = stateString]
    ELSE [ok |-> FALSE, state |-> [TokenName |-> "", TokenNamespace |-> "",
                                   ServiceProviderType |-> "", Scopes |-> <<>>]]

----------------------------------------------------------------------------
(* StateStorage *)

Letters == { SubSeq(letterBytes, i, i) : i \in 1..Len(letterBytes) }

\* every string of n letters
RECURSIVE LetterStrings(_)
LetterStrings(n) ==
    IF n = 0 THEN {""} ELSE { s \o l : s \in LetterStrings(n - 1), l \in Letters }

\* the results randStringBytes(n) can return: any string of n letters drawn
\* from letterBytes, or the error when the random source fails
randStringBytes(n) ==
    { [val |-> s, err |-> NoError] : s \in LetterStrings(n) }
        \cup { [val |-> "", err |-> randomStringGenerationError] }

\* scs.SessionManager.Put
Put(store, key, val) ==
    [k \in DOMAIN store \cup {key} |-> IF k = key THEN val ELSE store[k]]

\* scs.SessionManager.GetString: the zero value when the key is absent
GetString(store, key) ==
    IF key \in DOMAIN store THEN store[key] ELSE ""

\* req.URL.Query().Get(key)
QueryGet(req, key) ==
    IF key \in DOMAIN req.query THEN req.query[key] ELSE ""

\* http.Request.FormValue: the first value of the key, values of the body
\* before those of the URL query
FormValue(req, key) ==
    IF key \in DOMAIN req.post /\ req.post[key] # <<>>
    THEN req.post[key][1]
    ELSE QueryGet(req, key)

\* mutant: key and value of the Put are swapped
VeilRealStateSwapped(store, req, rnd) ==
    LET state == QueryGet(req, "state") IN
    IF state = ""
    THEN [val |-> "", err |-> noStateError, store |-> store, in |-> state]
    ELSE IF rnd.err # NoError
         THEN [val |-> "", err |-> rnd.err, store |-> store, in |-> state]
         ELSE [val |-> rnd.val, err |-> NoError,
               store |-> Put(store, state, rnd.val), in |-> state]

\* mutant: the empty state is not refused
VeilRealStateNoCheck(store, req, rnd) ==
    LET state == QueryGet(req, "state") IN
    IF rnd.err # NoError
    THEN [val |-> "", err |-> rnd.err, store |-> store, in |-> state]
    ELSE [val |-> rnd.val, err |-> NoError,
          store |-> Put(store, rnd.val, state), in |-> state]

\* mutant: when the random source fails, the state itself serves as the key
VeilRealStateFallback(store, req, rnd) ==
    LET state == QueryGet(req, "state") IN
    IF state = ""
    THEN [val |-> "", err |-> noStateError, store |-> store, in |-> state]
    ELSE IF rnd.err # NoError
         THEN [val |-> state, err |-> NoError,
               store |-> Put(store, state, state), in |-> state]
         ELSE [val |-> rnd.val, err |-> NoError,
               store |-> Put(store, rnd.val, state), in |-> state]

\* rnd is the result of the randStringBytes(32) call, made only when the
\* state is not empty
VeilRealState(store, req, rnd) ==
    LET state == QueryGet(req, "state") IN
    IF state = ""
    THEN [val |-> "", err |-> noStateError, store |-> store, in |-> state]
    ELSE IF rnd.err # NoError
         THEN [val |-> "", err |-> rnd.err, store |-> store, in |-> state]
         ELSE [val |-> rnd.val, err |-> NoError,
               store |-> Put(store, rnd.val, state), in |-> state]

\* mutant: the lookup ignores the key the request presents
UnveilStateAnyKey(store, req) ==
    LET state == QueryGet(req, "state") IN
    IF state = ""
    THEN [val |-> "", err |-> noStateError, store |-> store, in |-> state]
    ELSE [val |-> IF DOMAIN store = {} THEN ""
                  ELSE store[CHOOSE k \in DOMAIN store : ParseAnonymous(store[k]).ok
                                                         \/ \A j \in DOMAIN store : ~ParseAnonymous(store[j]).ok],
          err |-> NoError, store |-> store, in |-> state]

\* mutant: the entry is removed once it is read
UnveilStateConsuming(store, req) ==
    LET state == QueryGet(req, "state") IN
    IF state = ""
    THEN [val |-> "", err |-> noStateError, store |-> store, in |-> state]
    ELSE [val |-> GetString(store, state), err |-> NoError,
          store |-> [k \in DOMAIN store \ {state} |-> store[k]], in |-> state]

UnveilState(store, req) ==
    LET state == QueryGet(req, "state") IN
    IF state = ""
    THEN [val |-> "", err |-> noStateError, store |-> store, in |-> state]
    ELSE [val |-> GetString(store, state), err |-> NoError, store |-> store, in |-> state]

----------------------------------------------------------------------------
(* Collaborators *)

\* Authenticator.GetToken: the bearer token of the request, or an error when
\* the request carries none
GetToken(req) ==
    IF req.bearer = ""
    THEN [token |-> "", err |-> "no token found"]
    ELSE [token |-> req.bearer, err |-> NoError]

\* WithAuthIntoContext: the context under which the AuthenticatingClient and
\* the token storage act; they act as the identity it carries
WithAuthIntoContext(token, ctx) == [ctx EXCEPT !.auth = token]

\* the context of a request before any identity is put into it
RequestContext == [auth |-> ""]

\* the codes the provider's token endpoint accepts
AcceptedCodes == {"code1"}

\* oauth2.Config.Exchange: the provider's token endpoint
Exchange(code, scope) ==
    IF code \in AcceptedCodes
    THEN [err |-> NoError,
          token |-> [AccessToken |-> "access:" \o code, TokenType |-> "bearer",
                     RefreshToken |-> "refresh:" \o code]]
    ELSE [err |-> "oauth2: cannot fetch token",
          token |-> [AccessToken |-> "", TokenType |-> "", RefreshToken |-> ""]]

NoToken == [AccessToken |-> "", TokenType |-> "", RefreshToken |-> ""]
NoState == [TokenName |-> "", TokenNamespace |-> "", ServiceProviderType |-> "", Scopes |-> <<>>]

\* what the cluster API can answer to a SelfSubjectAccessReview
ReviewAnswers == {"allowed", "denied", "error"}

----------------------------------------------------------------------------
(* commonController *)

\* mutant: the review is created twice
checkIdentityHasAccessTwice(token, req, state, answer) ==
    LET ctx == WithAuthIntoContext(token, RequestContext)
        review == [as |-> ctx.auth, Namespace |-> state.TokenNamespace, Verb |-> "create",
                   Resource |-> "spiaccesstokendataupdates", answer |-> answer]
    IN  IF answer = "error"
        THEN [allowed |-> FALSE, err |-> "failed to create SelfSubjectAccessReview",
              reviews |-> <<review, review>>]
        ELSE [allowed |-> (answer = "allowed"), err |-> NoError,
              reviews |-> <<review, review>>]

\* mutant: the review's status is not read, any answer without error allows
checkIdentityHasAccessAnyAnswer(token, req, state, answer) ==
    LET ctx == WithAuthIntoContext(token, RequestContext)
        review == [as |-> ctx.auth, Namespace |-> state.TokenNamespace, Verb |-> "create",
                   Resource |-> "spiaccesstokendataupdates", answer |-> answer]
    IN  IF answer = "error"
        THEN [allowed |-> FALSE, err |-> "failed to create SelfSubjectAccessReview",
              reviews |-> <<review>>]
        ELSE [allowed |-> TRUE, err |-> NoError, reviews |-> <<review>>]

\* mutant: the review is created under the request's context, without the
\* caller's token put into it
checkIdentityHasAccessOwnIdentity(token, req, state, answer) ==
    LET ctx == RequestContext
        review == [as |-> ctx.auth, Namespace |-> state.TokenNamespace, Verb |-> "create",
                   Resource |-> "spiaccesstokendataupdates", answer |-> answer]
    IN  IF answer = "error"
        THEN [allowed |-> FALSE, err |-> "failed to create SelfSubjectAccessReview",
              reviews |-> <<review>>]
        ELSE [allowed |-> (answer = "allowed"), err |-> NoError, reviews |-> <<review>>]

\* answer is the cluster API's answer to the Create of the review
checkIdentityHasAccess(token, req, state, answer) ==
    LET ctx == WithAuthIntoContext(token, RequestContext)
        review == [as |-> ctx.auth, Namespace |-> state.TokenNamespace, Verb |-> "create",
                   Resource |-> "spiaccesstokendataupdates", answer |-> answer]
    IN  IF answer = "error"
        THEN [allowed |-> FALSE, err |-> "failed to create SelfSubjectAccessReview",
              reviews |-> <<review>>]
        ELSE [allowed |-> (answer = "allowed"), err |-> NoError, reviews |-> <<review>>]

\* mutant: the code is exchanged before the bearer token is looked at
finishOAuthExchangeLateToken(store, req) ==
    LET unveiled == UnveilState(store, req)
        parsed == ParseAnonymous(unveiled.val)
        k8sToken == GetToken(req)
        code == FormValue(req, "code")
        got == Exchange(code, FormValue(req, "scope"))
        failed == [state |-> NoState, result |-> oauthFinishError, token |-> NoToken,
                   authorizationHeader |-> ""]
        called == <<[code |-> code, err |-> got.err, token |-> got.token]>>
    IN  IF unveiled.err # NoError
        THEN [exchange |-> failed, err |-> "failed to unveil token state",
              unveil |-> <<unveiled>>, exchanges |-> <<>>]
        ELSE IF ~parsed.ok
        THEN [exchange |-> failed, err |-> "failed to parse JWT state string",
              unveil |-> <<unveiled>>, exchanges |-> <<>>]
        ELSE IF got.err # NoError
        THEN [exchange |-> failed, err |-> "failed to finish the OAuth exchange",
              unveil |-> <<unveiled>>, exchanges |-> called]
        ELSE IF k8sToken.err # NoError
        THEN [exchange |-> [failed EXCEPT !.result = oauthFinishK8sAuthRequired],
              err |-> noActiveSessionError,
              unveil |-> <<unveiled>>, exchanges |-> called]
        ELSE [exchange |-> [state |-> parsed.state, result |-> oauthFinishAuthenticated,
                            token |-> got.token, authorizationHeader |-> k8sToken.token],
              err |-> NoError,
              unveil |-> <<unveiled>>, exchanges |-> called]

\* the exchangeResult, the error, and the calls made on the way
finishOAuthExchange(store, req) ==
    LET unveiled == UnveilState(store, req)
        parsed == ParseAnonymous(unveiled.val)
        k8sToken == GetToken(req)
        code == FormValue(req, "code")
        got == Exchange(code, FormValue(req, "scope"))
        failed == [state |-> NoState, result |-> oauthFinishError, token |-> NoToken,
                   authorizationHeader |-> ""]
    IN  IF unveiled.err # NoError
        THEN [exchange |-> failed, err |-> "failed to unveil token state",
              unveil |-> <<unveiled>>, exchanges |-> <<>>]
        ELSE IF ~parsed.ok
        THEN [exchange |-> failed, err |-> "failed to parse JWT state string",
              unveil |-> <<unveiled>>, exchanges |-> <<>>]
        ELSE IF k8sToken.err # NoError
        THEN [exchange |-> [failed EXCEPT !.result = oauthFinishK8sAuthRequired],
              err |-> noActiveSessionError,
              unveil |-> <<unveiled>>, exchanges |-> <<>>]
        ELSE IF got.err # NoError
        THEN [exchange |-> failed, err |-> "failed to finish the OAuth exchange",
              unveil |-> <<unveiled>>, exchanges |-> <<[code |-> code, err |-> got.err, token |-> got.token]>>]
        ELSE [exchange |-> [state |-> parsed.state, result |-> oauthFinishAuthenticated,
                            token |-> got.token, authorizationHeader |-> k8sToken.token],
              err |-> NoError,
              unveil |-> <<unveiled>>, exchanges |-> <<[code |-> code, err |-> got.err, token |-> got.token]>>]

\* mutant: Get and Store run under the context as it came, without the
\* caller's token put into it
syncTokenDataOwnIdentity(exchange, getOK, storeOK) ==
    LET ctx == RequestContext
        get == [as |-> ctx.auth, Name |-> exchange.state.TokenName,
                Namespace |-> exchange.state.TokenNamespace, ok |-> getOK]
        apiToken == [AccessToken |-> exchange.token.AccessToken,
                     TokenType |-> exchange.token.TokenType,
                     RefreshToken |-> exchange.token.RefreshToken]
        put == [as |-> ctx.auth, Name |-> get.Name, Namespace |-> get.Namespace,
                token |-> apiToken, ok |-> storeOK]
    IN  IF ~getOK
        THEN [err |-> "failed to get the SPIAccessToken object", gets |-> <<get>>,
              stores |-> <<>>]
        ELSE IF ~storeOK
        THEN [err |-> "failed to persist the token to storage", gets |-> <<get>>,
              stores |-> <<put>>]
        ELSE [err |-> NoError, gets |-> <<get>>, stores |-> <<put>>]

\* mutant: the error of Store is dropped
syncTokenDataDropsStoreError(exchange, getOK, storeOK) ==
    LET ctx == WithAuthIntoContext(exchange.authorizationHeader, RequestContext)
        get == [as |-> ctx.auth, Name |-> exchange.state.TokenName,
                Namespace |-> exchange.state.TokenNamespace, ok |-> getOK]
        apiToken == [AccessToken |-> exchange.token.AccessToken,
                     TokenType |-> exchange.token.TokenType,
                     RefreshToken |-> exchange.token.RefreshToken]
        put == [as |-> ctx.auth, Name |-> get.Name, Namespace |-> get.Namespace,
                token |-> apiToken, ok |-> storeOK]
    IN  IF ~getOK
        THEN [err |-> "failed to get the SPIAccessToken object", gets |-> <<get>>,
              stores |-> <<>>]
        ELSE [err |-> NoError, gets |-> <<get>>, stores |-> <<put>>]

\* getOK: K8sClient.Get finds the SPIAccessToken; storeOK: TokenStorage.Store
\* succeeds
syncTokenData(exchange, getOK, storeOK) ==
    LET ctx == WithAuthIntoContext(exchange.authorizationHeader, RequestContext)
        get == [as |-> ctx.auth, Name |-> exchange.state.TokenName,
                Namespace |-> exchange.state.TokenNamespace, ok |-> getOK]
        apiToken == [AccessToken |-> exchange.token.AccessToken,
                     TokenType |-> exchange.token.TokenType,
                     RefreshToken |-> exchange.token.RefreshToken]
        put == [as |-> ctx.auth, Name |-> get.Name, Namespace |-> get.Namespace,
                token |-> apiToken, ok |-> storeOK]
    IN  IF ~getOK
        THEN [err |-> "failed to get the SPIAccessToken object", gets |-> <<get>>,
              stores |-> <<>>]
        ELSE IF ~storeOK
        THEN [err |-> "failed to persist the token to storage", gets |-> <<get>>,
              stores |-> <<put>>]
        ELSE [err |-> NoError, gets |-> <<get>>, stores |-> <<put>>]

\* mutant: the base URL's trailing slash is kept
redirectLocationUntrimmed(req) ==
    IF FormValue(req, "redirect_after_login") = ""
    THEN BaseUrl \o "/" \o "callback_success"
    ELSE FormValue(req, "redirect_after_login")

\* where Callback redirects after success
redirectLocation(req) ==
    IF FormValue(req, "redirect_after_login") = ""
    THEN TrimSuffix(BaseUrl, "/") \o "/" \o "callback_success"
    ELSE FormValue(req, "redirect_after_login")

AuditStarted == "OAuth authentication flow started"
AuditCompleted == "OAuth authentication completed successfully"

AuditLogWithTokenInfo(msg, state) ==
    [msg |-> msg, Namespace |-> state.TokenNamespace, Name |-> state.TokenName,
     provider |-> state.ServiceProviderType, scopes |-> state.Scopes]

----------------------------------------------------------------------------
(* Requests *)

\* a real state that is itself a string of VeilLen letters (and no encoded
\* anonymous state)
AlnumState == CHOOSE s \in LetterStrings(VeilLen) : TRUE

BearerTokens == {"", "alice"}

NewRequest(op, state, post, bearer, code, redirect) ==
    [op |-> op,
     query |-> [state |-> state, code |-> code, redirect_after_login |-> redirect],
     post |-> [state |-> post],
     bearer |-> bearer]

\* GET or POST /{provider}/authenticate; the body of a POST may carry a state
\* of its own
AuthenticateRequests ==
    { NewRequest("Authenticate", state, post, bearer, "", "") :
        state \in {"", Encode([TokenName |-> "tok1", TokenNamespace |-> "ns1"]), AlnumState},
        post \in {<<>>, <<Encode([TokenName |-> "tok2", TokenNamespace |-> "ns2"])>>},
        bearer \in BearerTokens }

\* GET /{provider}/callback
CallbackRequests ==
    { NewRequest("Callback", state, <<>>, bearer, code, redirect) :
        state \in {"", Encode([TokenName |-> "tok1", TokenNamespace |-> "ns1"])}
                    \cup LetterStrings(VeilLen),
        bearer \in BearerTokens,
        code \in {"code1", "bad"},
        redirect \in {"", "/done"} }

NoRequest == NewRequest("none", "", <<>>, "", "", "")

Response(status, location, url) == [status |-> status, location |-> location, url |-> url]

NoResponse == Response(0, "", <<>>)

NoEffects ==
    [reviews |-> <<>>, veil |-> <<>>, unveil |-> <<>>, finish |-> <<>>, exchanges |-> <<>>,
     gets |-> <<>>, stores |-> <<>>, audit |-> <<>>]

----------------------------------------------------------------------------
(* The state machine *)

Init ==
    /\ sessionStore = [k \in {} |-> ""]
    /\ request = NoRequest
    /\ response = NoResponse
    /\ effects = NoEffects
    /\ gated = {}

Respond(store, req, resp, eff) ==
    /\ sessionStore' = store
    /\ request' = req
    /\ response' = resp
    /\ effects' = eff

\* the page Authenticate renders: the provider's authorization URL
AuthCodeURL(state, newStateString) ==
    <<[endpoint |-> "provider/authorize", scope |-> state.Scopes, state |-> newStateString]>>

Authenticate ==
    \E r \in AuthenticateRequests :
        LET stateString == FormValue(r, "state")
            parsed == ParseAnonymous(stateString)
            token == GetToken(r)
        IN
        IF ~parsed.ok
        THEN Respond(sessionStore, r, Response(StatusBadRequest, "", <<>>), NoEffects)
        ELSE IF token.err # NoError
        THEN Respond(sessionStore, r, Response(StatusUnauthorized, "", <<>>), NoEffects)
        ELSE \E answer \in ReviewAnswers :
            LET access == checkIdentityHasAccess(token.token, r, parsed.state, answer)
                reviewed == [NoEffects EXCEPT !.reviews = access.reviews]
            IN
            IF access.err # NoError
            THEN Respond(sessionStore, r, Response(StatusInternalServerError, "", <<>>),
                         reviewed)
            ELSE IF ~access.allowed
            THEN Respond(sessionStore, r, Response(StatusUnauthorized, "", <<>>), reviewed)
            ELSE \E rnd \in randStringBytes(VeilLen) :
                LET veiled == VeilRealState(sessionStore, r, rnd)
                    started == [reviewed EXCEPT
                                  !.audit = <<AuditLogWithTokenInfo(AuditStarted, parsed.state)>>,
                                  !.veil = <<[in |-> veiled.in, val |-> veiled.val,
                                              err |-> veiled.err]>>]
                IN
                IF veiled.err # NoError
                THEN Respond(veiled.store, r, Response(StatusBadRequest, "", <<>>), started)
                ELSE \E templateOK \in BOOLEAN :
                    IF templateOK
                    THEN Respond(veiled.store, r,
                                 Response(StatusOK, "", AuthCodeURL(parsed.state, veiled.val)),
                                 started)
                    ELSE Respond(veiled.store, r,
                                 Response(StatusInternalServerError, "", <<>>), started)

Callback ==
    \E r \in CallbackRequests :
        LET fin == finishOAuthExchange(sessionStore, r)
            \* the session as UnveilState left it
            session == fin.unveil[1].store
            finished == [NoEffects EXCEPT
                           !.unveil = <<[in |-> fin.unveil[1].in, val |-> fin.unveil[1].val,
                                         err |-> fin.unveil[1].err]>>,
                           !.finish = <<[result |-> fin.exchange.result, err |-> fin.err]>>,
                           !.exchanges = fin.exchanges]
        IN
        IF fin.err # NoError
        THEN Respond(session, r, Response(StatusBadRequest, "", <<>>), finished)
        ELSE IF fin.exchange.result = oauthFinishK8sAuthRequired
        THEN Respond(session, r, Response(StatusUnauthorized, "", <<>>), finished)
        ELSE \E getOK \in BOOLEAN : \E storeOK \in (IF getOK THEN BOOLEAN ELSE {TRUE}) :
            LET sync == syncTokenData(fin.exchange, getOK, storeOK)
                synced == [finished EXCEPT !.gets = sync.gets, !.stores = sync.stores]
            IN
            IF sync.err # NoError
            THEN Respond(session, r, Response(StatusInternalServerError, "", <<>>),
                         synced)
            ELSE Respond(session, r, Response(StatusFound, redirectLocation(r), <<>>),
                         [synced EXCEPT !.audit =
                            <<AuditLogWithTokenInfo(AuditCompleted, fin.exchange.state)>>])

\* the session's lifetime ends: its data is gone, and so is every veiled state
SessionExpire ==
    /\ DOMAIN sessionStore # {}
    /\ Respond([k \in {} |-> ""], NoRequest, NoResponse, NoEffects)

Next ==
    \/ Authenticate /\ UNCHANGED gated
    \/ Callback /\ UNCHANGED gated
    \/ SessionExpire /\ UNCHANGED gated

Spec == Init /\ [][Next]_vars

\* what a request adds to the history: the target whose namespace the
\* access review of an Authenticate allowed and whose state its Veil then
\* stored, with the veiled value
Gated(req, eff) ==
    IF /\ req.op = "Authenticate"
       /\ eff.reviews # <<>> /\ eff.reviews[1].answer = "allowed"
       /\ eff.veil # <<>> /\ eff.veil[1].err = NoError
       /\ ParseAnonymous(eff.veil[1].in).ok
       /\ ParseAnonymous(eff.veil[1].in).state.TokenNamespace = eff.reviews[1].Namespace
    THEN {[veiled |-> eff.veil[1].val,
           Namespace |-> ParseAnonymous(eff.veil[1].in).state.TokenNamespace,
           Name |-> ParseAnonymous(eff.veil[1].in).state.TokenName]}
    ELSE {}

\* the same handlers, with the history of the session's access reviews
NextGated ==
    \/ Authenticate /\ gated' = gated \cup Gated(request', effects')
    \/ Callback /\ UNCHANGED gated
    \/ SessionExpire /\ gated' = {}

SpecGated == Init /\ [][NextGated]_vars

----------------------------------------------------------------------------
(* What the claims speak of, in terms of the request handled last *)

IsAuthenticate == request.op = "Authenticate"
IsCallback == request.op = "Callback"

\* the request failed: it was answered with a 4xx or 5xx status
Failed == response.status >= 400

HasBearer == GetToken(request).err = NoError

\* Authenticate reached its authorization step: the state decoded and a
\* bearer token was extracted
ReachedAuthorization ==
    IsAuthenticate /\ ParseAnonymous(FormValue(request, "state")).ok /\ HasBearer

\* Callback reached its identity step: the state was unveiled and decoded
ReachedIdentity ==
    /\ IsCallback
    /\ effects.unveil # <<>>
    /\ effects.unveil[1].err = NoError
    /\ ParseAnonymous(effects.unveil[1].val).ok

\* the Veil call of the request succeeded
Veiled == effects.veil # <<>> /\ effects.veil[1].err = NoError

\* Unveil of a veiled value in the session as it is now
UnveilNow(veiledState) ==
    UnveilState(sessionStore, NewRequest("Callback", veiledState, <<>>, "", "", ""))

----------------------------------------------------------------------------
(* C1 *)

\* C1: a Callback whose state query parameter is empty or is no key of the
\* session store when the request is served ends in failure, and makes no
\* provider token exchange and no Store call.
C1_ForgedCallbackFails ==
    [][ (/\ request'.op = "Callback"
         /\ \/ QueryGet(request', "state") = ""
            \/ QueryGet(request', "state") \notin DOMAIN sessionStore)
        => /\ response'.status >= 400
           /\ effects'.exchanges = <<>>
           /\ effects'.gets = <<>>
           /\ effects'.stores = <<>> ]_vars

\* a Callback presented a non-empty state that no entry of the session holds,
\* while the session holds other veiled states and the caller is
\* authenticated and brings a code the provider accepts
C1_Witness ==
    /\ IsCallback
    /\ QueryGet(request, "state") # ""
    /\ QueryGet(request, "state") \notin DOMAIN sessionStore
    /\ DOMAIN sessionStore # {}
    /\ HasBearer
    /\ QueryGet(request, "code") \in AcceptedCodes
    /\ effects.unveil[1].val = ""
    /\ Failed

----------------------------------------------------------------------------
(* C2 *)

\* C2 as stated: the access gate is evaluated exactly once in every
\* Authenticate that reaches the authorization step and exactly once in every
\* Callback that reaches the identity step, with the bearer token of that
\* request.
C2_GateOncePerAuthenticateAndCallback ==
    (ReachedAuthorization \/ (ReachedIdentity /\ HasBearer))
        => /\ Len(effects.reviews) = 1
           /\ effects.reviews[1].as = request.bearer

\* C2, amended: the access gate is evaluated exactly once in every
\* Authenticate that reaches the authorization step, with the bearer token
\* of that request, and in no other Authenticate; a Callback never evaluates
\* it, whether or not it goes on to the provider exchange.
C2_GateOncePerAuthenticate ==
    /\ ReachedAuthorization
        => /\ Len(effects.reviews) = 1
           /\ effects.reviews[1].as = request.bearer
           /\ effects.reviews[1].Verb = "create"
           /\ effects.reviews[1].Namespace =
                  ParseAnonymous(FormValue(request, "state")).state.TokenNamespace
    /\ (IsAuthenticate /\ ~ReachedAuthorization) => effects.reviews = <<>>
    /\ IsCallback => effects.reviews = <<>>

\* a Callback went through to the provider exchange and the token storage
\* without any access review
C2_Witness ==
    /\ ReachedIdentity
    /\ HasBearer
    /\ Len(effects.exchanges) = 1
    /\ Len(effects.stores) = 1
    /\ effects.reviews = <<>>

----------------------------------------------------------------------------
(* C3 *)

\* C3: a Callback in which the bearer identity cannot be extracted makes no
\* call to the provider token endpoint and none to the storage collaborator,
\* and, when its veiled state is valid, finishOAuthExchange produces the
\* K8sAuthRequired result.
C3_NoBearerNoExchange ==
    (IsCallback /\ ~HasBearer)
        => /\ effects.exchanges = <<>>
           /\ effects.gets = <<>>
           /\ effects.stores = <<>>
           /\ ReachedIdentity => effects.finish[1].result = oauthFinishK8sAuthRequired

\* a Callback without bearer token presented a veiled state that unveils to
\* a decodable state, with a code the provider accepts
C3_Witness ==
    /\ ReachedIdentity
    /\ ~HasBearer
    /\ QueryGet(request, "code") \in AcceptedCodes
    /\ effects.finish[1].result = oauthFinishK8sAuthRequired

----------------------------------------------------------------------------
(* C4 *)

\* C4: a Callback in which the bearer identity cannot be extracted is
\* answered with HTTP 401, and a generic failure of the OAuth exchange (the
\* provider refusing the code) with another status.
C4_K8sAuthRequiredIs401 ==
    /\ (IsCallback /\ effects.finish[1].result = oauthFinishK8sAuthRequired)
        => response.status = StatusUnauthorized
    /\ (IsCallback /\ Len(effects.exchanges) = 1 /\ effects.finish[1].result = oauthFinishError)
        => response.status # StatusUnauthorized

----------------------------------------------------------------------------
(* C5 *)

\* C5: an Authenticate writes a veiled-state entry or emits a provider
\* authorization URL only when the state decoded, a bearer token was
\* extracted and the access review answered allowed; a review answering
\* denied ends the request with 401 and a review that errors with 500, both
\* with the session store as it was and no URL emitted.
C5_NoVeilWithoutAccess ==
    [][ request'.op = "Authenticate"
        => /\ (\/ sessionStore' # sessionStore
               \/ effects'.veil # <<>>
               \/ response'.url # <<>>)
                => /\ ParseAnonymous(FormValue(request', "state")).ok
                   /\ GetToken(request').err = NoError
                   /\ Len(effects'.reviews) = 1
                   /\ effects'.reviews[1].answer = "allowed"
           /\ (effects'.reviews # <<>> /\ effects'.reviews[1].answer = "denied")
                => /\ response'.status = StatusUnauthorized
                   /\ sessionStore' = sessionStore
                   /\ response'.url = <<>>
           /\ (effects'.reviews # <<>> /\ effects'.reviews[1].answer = "error")
                => /\ response'.status = StatusInternalServerError
                   /\ sessionStore' = sessionStore
                   /\ response'.url = <<>> ]_vars

\* the access review denied an Authenticate whose state decoded and whose
\* URL carried a state to veil
C5_Witness ==
    /\ ReachedAuthorization
    /\ QueryGet(request, "state") # ""
    /\ Len(effects.reviews) = 1
    /\ effects.reviews[1].answer = "denied"
    /\ response.status = StatusUnauthorized
    /\ effects.veil = <<>>

----------------------------------------------------------------------------
(* C6 *)

\* C6: every access review is performed under the bearer token of the
\* request being served.
C6_ReviewUnderCallersToken ==
    \A i \in 1..Len(effects.reviews) :
        /\ effects.reviews[i].as = GetToken(request).token
        /\ effects.reviews[i].as # RequestContext.auth

\* an access review was made for the caller "alice"
C6_Witness ==
    /\ IsAuthenticate
    /\ Len(effects.reviews) = 1
    /\ effects.reviews[1].as = "alice"
    /\ request.bearer = "alice"

----------------------------------------------------------------------------
(* C7 *)

\* C7 as stated: for every non-empty real state s, Unveil of the value that
\* Veil(s) returned gives back s, and the veiled value differs from s.
C7_RoundTripAndDistinct ==
    Veiled => /\ UnveilNow(effects.veil[1].val).err = NoError
              /\ UnveilNow(effects.veil[1].val).val = effects.veil[1].in
              /\ effects.veil[1].val # effects.veil[1].in

\* C7, amended: for every non-empty real state s, Unveil of the value that
\* Veil(s) returned gives back s; the veiled value is a string of VeilLen
\* letters of letterBytes, and differs from s whenever s is not itself such a
\* string.
C7_RoundTrip ==
    Veiled => /\ effects.veil[1].in # ""
              /\ UnveilNow(effects.veil[1].val).err = NoError
              /\ UnveilNow(effects.veil[1].val).val = effects.veil[1].in
              /\ Len(effects.veil[1].val) = VeilLen
              /\ \A i \in 1..VeilLen :
                    \E j \in 1..Len(letterBytes) :
                        SubSeq(effects.veil[1].val, i, i) = SubSeq(letterBytes, j, j)
              /\ effects.veil[1].in \notin LetterStrings(VeilLen)
                    => effects.veil[1].val # effects.veil[1].in

\* an encoded state was veiled while the session held another veiled state
C7_Witness ==
    /\ Veiled
    /\ ParseAnonymous(effects.veil[1].in).ok
    /\ UnveilNow(effects.veil[1].val).val = effects.veil[1].in
    /\ Cardinality(DOMAIN sessionStore) > 1

----------------------------------------------------------------------------
(* C8 *)

\* C8: Veil with an empty real state fails with the missing-state error and
\* writes nothing to the session store; Unveil with an empty query state
\* fails with the missing-state error; Unveil with a non-empty key that the
\* store does not hold returns the empty string and no error.
C8_MissingState ==
    [][ /\ (request'.op = "Authenticate" /\ effects'.veil # <<>>
                /\ QueryGet(request', "state") = "")
            => /\ effects'.veil[1].err = noStateError
               /\ effects'.veil[1].val = ""
               /\ sessionStore' = sessionStore
        /\ (request'.op = "Callback" /\ QueryGet(request', "state") = "")
            => /\ effects'.unveil[1].err = noStateError
               /\ effects'.unveil[1].val = ""
        /\ (request'.op = "Callback" /\ QueryGet(request', "state") # ""
                /\ QueryGet(request', "state") \notin DOMAIN sessionStore)
            => /\ effects'.unveil[1].err = NoError
               /\ effects'.unveil[1].val = "" ]_vars

\* an Authenticate that passed the access gate called Veil with an empty
\* real state, in a session that holds veiled states
C8_Witness ==
    /\ IsAuthenticate
    /\ effects.veil # <<>>
    /\ effects.veil[1].in = ""
    /\ effects.veil[1].err = noStateError
    /\ DOMAIN sessionStore # {}

----------------------------------------------------------------------------
(* C9 *)

\* C9: Veil never returns a veiled value that is the key of a live entry of
\* the session store, so that no Veil overwrites the entry of an earlier
\* pending flow.
C9_VeilNeverReusesLiveKey ==
    [][ (request'.op = "Authenticate" /\ effects'.veil # <<>>
            /\ effects'.veil[1].err = NoError)
        => /\ effects'.veil[1].val \notin DOMAIN sessionStore
           /\ \A k \in DOMAIN sessionStore : sessionStore'[k] = sessionStore[k] ]_vars

----------------------------------------------------------------------------
(* C10 *)

\* the Callback presents a veiled state the session holds and that unveils
\* to a decodable state, with a bearer token and a code the provider accepts
HappyCallback ==
    /\ IsCallback
    /\ QueryGet(request, "state") \in DOMAIN sessionStore
    /\ ParseAnonymous(sessionStore[QueryGet(request, "state")]).ok
    /\ HasBearer
    /\ FormValue(request, "code") \in AcceptedCodes

\* exactly one exchange, exactly one Store of the exchanged token, and a 302
\* to redirect_after_login or to the default success path
StoredOnceAndRedirected ==
    /\ Len(effects.exchanges) = 1
    /\ Len(effects.stores) = 1
    /\ effects.stores[1].token.AccessToken = effects.exchanges[1].token.AccessToken
    /\ effects.stores[1].token.RefreshToken = effects.exchanges[1].token.RefreshToken
    /\ effects.stores[1].token.AccessToken # ""
    /\ response.status = StatusFound
    /\ response.location =
          IF request.query.redirect_after_login # ""
          THEN request.query.redirect_after_login
          ELSE "https://spi.example/callback_success"

\* C10 as stated: a Callback with a valid veiled state, an extractable
\* bearer identity, a code the provider accepts and a storage collaborator
\* that succeeds makes exactly one exchange and one Store call carrying the
\* exchanged token, and answers 302 to redirect_after_login or the default
\* success path.
C10_HappyPathStoresAndRedirects ==
    (HappyCallback /\ \A i \in 1..Len(effects.stores) : effects.stores[i].ok)
        => StoredOnceAndRedirected

\* C10, amended: the same, provided also that the fetch of the target
\* SPIAccessToken object succeeds.
C10_HappyPathWithObject ==
    (/\ HappyCallback
     /\ \A i \in 1..Len(effects.gets) : effects.gets[i].ok
     /\ \A i \in 1..Len(effects.stores) : effects.stores[i].ok)
        => StoredOnceAndRedirected

\* a Callback on the happy path was redirected to the default success path
C10_Witness ==
    /\ HappyCallback
    /\ Len(effects.gets) = 1 /\ effects.gets[1].ok
    /\ Len(effects.stores) = 1 /\ effects.stores[1].ok
    /\ request.query.redirect_after_login = ""
    /\ response.status = StatusFound
    /\ response.location = "https://spi.example/callback_success"

----------------------------------------------------------------------------
(* C11 *)

----------------------------------------------------------------------------
(* C12 *)

\* C12: after a successful Authenticate, the state parameter of the provider
\* authorization URL on the redirect page is the veiled value, and Unveil of
\* it in the same session returns the state string that decodes to the
\* AnonymousState the Authenticate request carried (the one it decoded).
C12_PageStateUnveilsToRequestState ==
    (IsAuthenticate /\ response.url # <<>>)
        => /\ Veiled
           /\ response.url[1].state = effects.veil[1].val
           /\ ParseAnonymous(UnveilNow(response.url[1].state).val).ok
           /\ ParseAnonymous(UnveilNow(response.url[1].state).val).state
                  = ParseAnonymous(FormValue(request, "state")).state

----------------------------------------------------------------------------
(* C13 *)

\* C13: when the random generator fails during the Veil step of
\* Authenticate, the request fails with a 5xx status, no entry is written to
\* the session store and no redirect page is emitted.
C13_GenerationErrorIs5xx ==
    [][ (request'.op = "Authenticate" /\ effects'.veil # <<>>
            /\ effects'.veil[1].err = randomStringGenerationError)
        => /\ response'.status >= 500
           /\ sessionStore' = sessionStore
           /\ response'.url = <<>> ]_vars

----------------------------------------------------------------------------
(* C14 *)

\* the provider token exchange of the Callback was made and failed
ExchangeFailed ==
    /\ IsCallback
    /\ Len(effects.exchanges) = 1
    /\ effects.exchanges[1].err # NoError

\* C14: a Callback whose provider token exchange fails is answered
\* with HTTP 500, and makes no Store call and no success redirect.
C14_ExchangeErrorIs500 ==
    ExchangeFailed
        => /\ response.status = StatusInternalServerError
           /\ effects.stores = <<>>
           /\ response.location = ""

----------------------------------------------------------------------------
(* C15 *)

\* the exchange of the Callback succeeded and then the fetch of the object
\* or the Store call failed
SyncFailed ==
    /\ IsCallback
    /\ Len(effects.exchanges) = 1
    /\ effects.exchanges[1].err = NoError
    /\ \/ \E i \in 1..Len(effects.gets) : ~effects.gets[i].ok
       \/ \E i \in 1..Len(effects.stores) : ~effects.stores[i].ok

\* C15: when a Callback's exchange succeeded but the fetch of the target
\* object or the Store call fails, the Callback is answered with HTTP 500,
\* no 302 is issued and no "completed successfully" audit entry is emitted;
\* when the fetch fails, Store is not called at all.
C15_SyncErrorIs500 ==
    SyncFailed
        => /\ response.status = StatusInternalServerError
           /\ response.location = ""
           /\ \A i \in 1..Len(effects.audit) : effects.audit[i].msg # AuditCompleted
           /\ (\E i \in 1..Len(effects.gets) : ~effects.gets[i].ok) => effects.stores = <<>>

\* the object was fetched and the Store call failed
C15_Witness ==
    /\ SyncFailed
    /\ Len(effects.gets) = 1 /\ effects.gets[1].ok
    /\ Len(effects.stores) = 1 /\ ~effects.stores[1].ok
    /\ response.status = StatusInternalServerError

----------------------------------------------------------------------------
(* C16 *)

\* C16: a Callback leaves the session store as it was, so that a Callback
\* that follows one which unveiled v, and presents the same v, unveils the
\* same state and, with a bearer token, reaches the provider token exchange
\* again.
C16_UnveilKeepsEntry ==
    [][ request'.op = "Callback"
        => /\ sessionStore' = sessionStore
           /\ (/\ request.op = "Callback"
               /\ effects.unveil[1].err = NoError
               /\ effects.unveil[1].val # ""
               /\ QueryGet(request', "state") = QueryGet(request, "state"))
                => /\ effects'.unveil[1].err = NoError
                   /\ effects'.unveil[1].val = effects.unveil[1].val
                   /\ (ParseAnonymous(effects.unveil[1].val).ok
                            /\ GetToken(request').err = NoError)
                        => Len(effects'.exchanges) = 1 ]_vars

\* a Callback went through to the redirect and the entry it unveiled is
\* still in the session, with the same real state
C16_Witness ==
    /\ IsCallback
    /\ response.status = StatusFound
    /\ QueryGet(request, "state") \in DOMAIN sessionStore
    /\ sessionStore[QueryGet(request, "state")] = effects.unveil[1].val
    /\ UnveilNow(QueryGet(request, "state")).val = effects.unveil[1].val

----------------------------------------------------------------------------
(* C17 *)

\* C17: once a Veil has put v -> s into the session, every later Unveil(v)
\* before the session expires returns s, whatever other requests veil or
\* unveil in between: no request changes the entry of a key that is live.
C17_LiveEntriesAreStable ==
    [][ request'.op # "none"
        => \A v \in DOMAIN sessionStore :
              UnveilState(sessionStore',
                          NewRequest("Callback", v, <<>>, "", "", "")).val = sessionStore[v] ]_vars

----------------------------------------------------------------------------
(* C18 *)

\* C18: a "flow started" audit entry is emitted only by an Authenticate
\* whose access review allowed the caller, a "completed successfully" entry
\* only by a Callback whose Store call succeeded, and a request that ends in
\* an error before those points emits no audit entry.
C18_AuditOnlyAfterSuccess ==
    /\ \A i \in 1..Len(effects.audit) :
        /\ effects.audit[i].msg \in {AuditStarted, AuditCompleted}
        /\ effects.audit[i].msg = AuditStarted
            => /\ IsAuthenticate
               /\ Len(effects.reviews) = 1
               /\ effects.reviews[1].answer = "allowed"
        /\ effects.audit[i].msg = AuditCompleted
            => /\ IsCallback
               /\ Len(effects.stores) = 1
               /\ effects.stores[1].ok
    /\ (IsAuthenticate /\ (effects.reviews = <<>> \/ effects.reviews[1].answer # "allowed"))
        => effects.audit = <<>>
    /\ (IsCallback /\ (effects.stores = <<>> \/ ~effects.stores[1].ok))
        => effects.audit = <<>>

\* a Callback whose Store call succeeded emitted the "completed
\* successfully" entry for the object it stored to
C18_Witness ==
    /\ IsCallback
    /\ Len(effects.stores) = 1 /\ effects.stores[1].ok
    /\ Len(effects.audit) = 1
    /\ effects.audit[1].msg = AuditCompleted
    /\ effects.audit[1].Name = effects.stores[1].Name

----------------------------------------------------------------------------
(* C19 *)

\* the real states a request can ask to veil
RealStates == { Encode(st) : st \in AnonymousStates } \cup {AlnumState}

\* what Veil can return for a real state in a session
VeilResults(store, state) ==
    { [val |-> VeilRealState(store, NewRequest("Authenticate", state, <<>>, "", "", ""),
                             rnd).val,
       err |-> VeilRealState(store, NewRequest("Authenticate", state, <<>>, "", "", ""),
                             rnd).err] : rnd \in randStringBytes(VeilLen) }

\* C19: the veiled value is independent of the real state: in every session
\* Veil can return the same values for any two non-empty real states, and
\* the value a request was given could have been given for any other real
\* state.
C19_VeilIndependentOfState ==
    /\ \A s1, s2 \in RealStates :
          VeilResults(sessionStore, s1) = VeilResults(sessionStore, s2)
    /\ Veiled => \A s \in RealStates :
          [val |-> effects.veil[1].val, err |-> NoError] \in VeilResults(sessionStore, s)

\* the session holds two veiled states of different real states, one of them
\* just veiled
C19_Witness ==
    /\ Veiled
    /\ ParseAnonymous(effects.veil[1].in).ok
    /\ \E v \in DOMAIN sessionStore :
          /\ v # effects.veil[1].val
          /\ sessionStore[v] # effects.veil[1].in

----------------------------------------------------------------------------
(* C20 *)

\* C20: in every Authenticate that writes a veiled-state entry, the real
\* state stored under the veil is the very string that was decoded and
\* access-checked in that request, however the request supplies the state
\* (URL query, form body, or both).
C20_VeiledStateIsCheckedState ==
    (IsAuthenticate /\ Veiled)
        => /\ effects.veil[1].in = FormValue(request, "state")
           /\ UnveilNow(effects.veil[1].val).val = FormValue(request, "state")

----------------------------------------------------------------------------
(* C21 *)

\* C21: under any interleaving of Authenticate and Callback requests for
\* several targets, every Store call of a Callback writes to a target for
\* which an earlier Authenticate of the session passed the access review
\* and veiled that target's state under the veiled value the Callback
\* presented.
C21_StoreOnlyOnGatedTarget ==
    IsCallback =>
        \A i \in 1..Len(effects.stores) :
            [veiled |-> QueryGet(request, "state"),
             Namespace |-> effects.stores[i].Namespace,
             Name |-> effects.stores[i].Name] \in gated

====
